---- MODULE Spec2Model ----
(***************************************************************************)
(* Model of the launcher (src/src/launcher/main.go): the run controller    *)
(* (main), the monitor goroutine, the event aggregator and the fanotify    *)
(* reader of listenEvents, the command server, and the signal handler.     *)
(*                                                                         *)
(* Every goroutine is a program counter plus its locals; an unbuffered Go  *)
(* channel is a joint step of its sender and its receiver, a buffered one  *)
(* a sequence.  The aggregation bookkeeping of one event touches only the  *)
(* goroutine-local report and is one step.                                 *)
(***************************************************************************)
EXTENDS Integers, Sequences, FiniteSets, TLC

\* ---------------------------------------------------------------- bounds
MaxRaw == 3      \* raw fanotify events read in one run (AggSpec)
MaxCtlRaw == 1   \* raw fanotify events read in one run (Spec)
MaxCmds == 2     \* messages that arrive on the command socket in one run

\* ------------------------------------------------------- program constants
PublishTries == 3          \* for ptry := 0; ptry < 3; ptry++

FAN_ACCESS == "FAN_ACCESS"
FAN_MODIFY == "FAN_MODIFY"
FAN_OPEN == "FAN_OPEN"
FAN_Q_OVERFLOW == "FAN_Q_OVERFLOW"
MaskBits == {FAN_ACCESS, FAN_MODIFY, FAN_OPEN, FAN_Q_OVERFLOW}

\* ------------------------------------------------------------ input domains
\* ExePath(pid) is what /proc/<pid>/exe links to when the pid can be
\* introspected; Sources are the <<pid, path>> pairs the kernel may report: a
\* process touching its own executable, the same process touching another
\* file, and a second process touching its own executable.
ExePath(pid) == IF pid = 7 THEN "/bin/app" ELSE "/bin/sh"
Sources == {<<7, "/bin/app">>, <<7, "/etc/hostname">>, <<12, "/bin/sh">>}
AllMasks == SUBSET MaskBits

\* the artifact specification has the target also touch a file whose name
\* holds a space
StoreSources == Sources \cup {<<7, "/opt/my app">>}

\* the lifecycle specification draws its events from a narrower domain
CtlSources == {<<7, "/bin/app">>}
CtlMasks == {{FAN_OPEN, FAN_ACCESS}, {FAN_Q_OVERFLOW}}

Commands == {"monitor.finish", "monitor.other"}
IntrospectOutcomes == {"ok", "err", "nostat"}
PublishOutcomes == {"ok", "timeout", "error"}
IpcFiles == {"/tmp/docker-slim-launcher.cmds.ipc", "/tmp/docker-slim-launcher.events.ipc"}

NULL == "null"
\* a nil *processInfo, and the reader holding no event
NilProcess == [Pid |-> 0, Path |-> ""]
NoEvent == [ID |-> 0, Pid |-> 0, File |-> "", IsRead |-> FALSE, IsWrite |-> FALSE]
EmptyMap == [k \in {} |-> NULL]
\* no event processed yet
NoIntro == [pid |-> 0, outcome |-> "none"]
\* a nil *artifactProps
NilProps == [FilePath |-> "", FileType |-> "nil", LinkRef |-> "", Flags |-> {}]

\* ---------------------------------------------------------- the mount point
\* what find -L and stat -L see under the mount point: the inode behind every
\* path.  /usr/bin/app is a second name of /bin/app; "/opt/my app" is a file
\* whose name holds a space.
FsInode ==
  [p \in {"/bin/app", "/usr/bin/app", "/bin/sh", "/etc/hostname", "/opt/my app"} |->
     CASE p = "/bin/app" -> 1 [] p = "/usr/bin/app" -> 1
       [] p = "/bin/sh" -> 2 [] p = "/etc/hostname" -> 3
       [] p = "/opt/my app" -> 4]

\* strings.Split(path, " ") for the paths above
PathWords(p) == IF p = "/opt/my app" THEN <<"/opt/my", "app">> ELSE <<p>>

\* os.Readlink of a name that is a symlink
LinkRef(p) == IF p = "/usr/bin/app" THEN "/bin/app" ELSE "/bin/bash"

\* the names in the byte order sort.Strings uses
PathOrder == <<"/bin/app", "/bin/sh", "/etc/hostname", "/opt/my", "/opt/my app",
               "/usr/bin/app">>
strLess(a, b) ==
  (CHOOSE i \in DOMAIN PathOrder : PathOrder[i] = a) <
  (CHOOSE i \in DOMAIN PathOrder : PathOrder[i] = b)

\* what Lstat can report for a name at prepare time
LstatKinds == {"absent", "file", "symlink", "badlink", "dir", "other"}
CtlKinds == {"file"}

VARIABLES
  mainPc,        \* position of main()
  exit,          \* how the process ended: "none" while it runs
  sigPc,         \* signal goroutine of initSignalHandlers
  cleanPc,       \* position inside cleanupOnShutdown, per caller
  doneChan,      \* the global variable: "nil" or "set"
  doneClosed,    \* the channel made at line 1079 is closed
  cmdChannel,    \* the global variable: "nil" or "set"
  evtChannel,    \* the global variable: "nil" or "set"
  cmdSock,       \* the rep socket: "none", "open", "closed"
  evtSock,       \* the pub socket: "none", "open", "closed"
  closeCalls,    \* number of close calls made on done / cmd / evt
  monDoneChan,   \* buffered(1) channel main -> monitor goroutine
  monPc,         \* goroutine of monitor()
  aggPc,         \* aggregator loop of listenEvents
  report,        \* the monitorReport the aggregator builds
  eventsChan,    \* buffered(1) report channel aggregator -> monitor
  deliveries,    \* number of sends on eventsChan
  stopSeen,      \* the aggregator received from stopChan
  firstIntro,    \* history: pid and introspection outcome of the first event processed
  drained,       \* history: events processed while the stop signal was pending
  readerPc,      \* fanotify reader goroutine
  eventID,       \* its counter
  pending,       \* the event it is sending on eventChan
  readerErr,     \* the call whose error the reader passed to check(err): "none" if none
  rawCount,      \* raw events read so far
  emitted,       \* ids of the events the reader emitted, in order
  srvPc,         \* command server goroutine
  srvCmd,        \* the command it holds
  srvArgs,       \* the channel and done values runCmdServer was called with
  received,      \* commands received on the command socket, in order
  acks,          \* number of "ok" replies sent
  ctlCmds,       \* commands the controller took from cmdChan, in order
  appState,      \* the target: "notStarted", "running", "exited"
  marked,        \* fanotify mark on the mount point is in place
  ipcFiles,      \* stale ipc socket files present in /tmp
  reportWritten, \* creport.json has been written
  lstatKind,     \* what os.Lstat reported for each name prepareArtifact was called with
  rawNames,      \* artifactStore.rawNames: name -> props, NilProps for nil
  nameList,      \* artifactStore.nameList
  staged,        \* names saveArtifacts copied or linked under the store location
  imageFiles,    \* image.files of the creport.json written
  ptry,          \* publish attempts made
  published,     \* a publish attempt succeeded
  signalled      \* a handled signal was delivered

vars == <<mainPc, exit, sigPc, cleanPc, doneChan, doneClosed, cmdChannel,
          evtChannel, cmdSock, evtSock, closeCalls, monDoneChan, monPc, aggPc,
          report, eventsChan, deliveries, stopSeen, firstIntro, drained,
          readerPc, eventID, pending, readerErr,
          rawCount, emitted, srvPc, srvCmd, srvArgs, received, acks, ctlCmds,
          appState, marked, ipcFiles, reportWritten, lstatKind, rawNames, nameList,
          staged, imageFiles, ptry, published, signalled>>

\* groups used in UNCHANGED clauses
globalVars == <<doneChan, doneClosed, cmdChannel, evtChannel, cmdSock, evtSock, closeCalls>>
aggHist == <<firstIntro, drained>>
aggVars == <<aggPc, report, eventsChan, deliveries, stopSeen, aggHist>>
readerVars == <<readerPc, eventID, pending, readerErr, rawCount, emitted>>
srvVars == <<srvPc, srvCmd, srvArgs, received, acks>>
envVars == <<appState, marked, ipcFiles>>
pubVars == <<ptry, published>>
storeVars == <<lstatKind, rawNames, nameList, staged, imageFiles>>

Alive == exit = "none"

\* callers of cleanupOnShutdown and the positions inside it
Callers == {"main", "sig"}
Handles == {"done", "cmd", "evt"}
PcIdle == [op |-> "idle", k |-> "-"]
PcRet == [op |-> "ret", k |-> "-"]

\* ------------------------------------------------------------------ report
\* report := &monitorReport{MonitorPid, MonitorParentPid, ProcessFiles: make(...)}
\* Processes is left nil: ProcessesMade records whether the map was made.
newReport ==
  [EventCount |-> 0, MainProcess |-> NilProcess, ProcessesMade |-> FALSE,
   Processes |-> EmptyMap, ProcessFiles |-> EmptyMap]

\* the state when main() is entered
Init ==
  /\ mainPc = "init"
  /\ exit = "none"
  /\ sigPc = "off"
  /\ cleanPc = [c \in Callers |-> PcIdle]
  /\ doneChan = "nil" /\ doneClosed = FALSE
  /\ cmdChannel = "nil" /\ evtChannel = "nil"
  /\ cmdSock = "none" /\ evtSock = "none"
  /\ closeCalls = [k \in Handles |-> 0]
  /\ monDoneChan = <<>>
  /\ monPc = "off"
  /\ aggPc = "off"
  /\ report = newReport
  /\ eventsChan = <<>>
  /\ deliveries = 0
  /\ stopSeen = FALSE
  /\ firstIntro = NoIntro
  /\ drained = 0
  /\ readerPc = "off"
  /\ eventID = 0
  /\ pending = NoEvent
  /\ readerErr = "none"
  /\ rawCount = 0
  /\ emitted = <<>>
  /\ srvPc = "off" /\ srvCmd = NULL
  /\ srvArgs = [channel |-> "nil", done |-> "nil"]
  /\ received = <<>> /\ acks = 0 /\ ctlCmds = <<>>
  /\ appState = "notStarted"
  /\ marked = FALSE
  /\ ipcFiles = {}         \* a fresh /tmp; StartupInit covers the stale cases
  /\ reportWritten = FALSE
  /\ lstatKind = EmptyMap /\ rawNames = EmptyMap /\ nameList = <<>> /\ staged = {} /\ imageFiles = <<>>
  /\ ptry = 0 /\ published = FALSE
  /\ signalled = FALSE

\* ------------------------------------------------------- process introspector
\* strconv.Itoa for the non-negative pids the kernel reports
Digit(d) ==
  CASE d = 0 -> "0" [] d = 1 -> "1" [] d = 2 -> "2" [] d = 3 -> "3" [] d = 4 -> "4"
    [] d = 5 -> "5" [] d = 6 -> "6" [] d = 7 -> "7" [] d = 8 -> "8" [] d = 9 -> "9"

RECURSIVE Itoa(_)
Itoa(n) == IF n < 10 THEN Digit(n) ELSE Itoa(n \div 10) \o Digit(n % 10)

\* getProcessInfo: "err" is a failed readlink/read of exe, cwd, root or cmdline
\* (nil, err); "ok" yields the record.  ("nostat", an unreadable stat file
\* after the other four reads succeeded, panics; see getProcessInfoPanics.)
getProcessInfo(pid, outcome) ==
  IF outcome = "ok" THEN [Pid |-> pid, Path |-> ExePath(pid)] ELSE NilProcess

\* procName[1 : len(procName)-1] on the empty procName of an unread stat file
getProcessInfoPanics(outcome) == outcome = "nostat"

\* ------------------------------------------------------- notification reader
\* the mask tests of the reader: doNotify, isRead, isWrite
decodeMask(mask) ==
  [doNotify |-> (FAN_OPEN \in mask) \/ (FAN_ACCESS \in mask) \/ (FAN_MODIFY \in mask),
   isRead |-> FAN_ACCESS \in mask,
   isWrite |-> FAN_MODIFY \in mask]

isOverflow(mask) == FAN_Q_OVERFLOW \in mask

\* readEvent with eventID++ moved out of the if doNotify block
readEvent_CountsDropped(id, mask, pid, path) ==
  LET d == decodeMask(mask) IN
  [emit |-> d.doNotify, id |-> id + 1,
   e |-> IF d.doNotify
           THEN [ID |-> id + 1, Pid |-> pid, File |-> path,
                 IsRead |-> d.isRead, IsWrite |-> d.isWrite]
           ELSE NoEvent]

\* readEvent with the counter incremented after the event was built:
\*   e := event{ID: eventID, ...}; eventID++
readEvent_PostIncrement(id, mask, pid, path) ==
  LET d == decodeMask(mask) IN
  IF d.doNotify
    THEN [emit |-> TRUE, id |-> id + 1,
          e |-> [ID |-> id, Pid |-> pid, File |-> path,
                 IsRead |-> d.isRead, IsWrite |-> d.isWrite]]
    ELSE [emit |-> FALSE, id |-> id, e |-> NoEvent]

\* the tail of one reader iteration, after GetEvent and the readlink succeeded
\* on a mask without the overflow bit: the mask tests, then
\*   if doNotify { eventID++; e := event{ID: eventID, ...}; eventChan <- e }
\* emit tells whether an event is sent, id is the counter afterwards
readEvent(id, mask, pid, path) ==
  LET d == decodeMask(mask) IN
  IF d.doNotify
    THEN [emit |-> TRUE, id |-> id + 1,
          e |-> [ID |-> id + 1, Pid |-> pid, File |-> path,
                 IsRead |-> d.isRead, IsWrite |-> d.isWrite]]
    ELSE [emit |-> FALSE, id |-> id, e |-> NoEvent]

\* one whole iteration of the reader loop on a raw event: the overflow test
\* (continue), then readEvent
readRaw(id, mask, pid, path) ==
  IF isOverflow(mask) THEN [emit |-> FALSE, id |-> id, e |-> NoEvent]
  ELSE readEvent(id, mask, pid, path)

\* one iteration of the reader loop: nd.GetEvent, the overflow test, the
\* readlink of /proc/self/fd/<fd>, the mask tests and the creation of the
\* event.  getOk / linkOk are the outcomes of GetEvent and of the readlink.
ReaderGetEvent(masks, sources, maxRaw) ==
  /\ Alive /\ readerPc = "get" /\ rawCount < maxRaw
  /\ rawCount' = rawCount + 1
  /\ \E getOk \in BOOLEAN :
       IF ~getOk
         THEN \* check(err) after GetEvent: log.Fatalln
              /\ exit' = "fatal"
              /\ readerErr' = "GetEvent"
              /\ UNCHANGED <<readerPc, eventID, pending, emitted>>
       ELSE \E mask \in masks :
         IF isOverflow(mask)
           THEN \* continue
                /\ eventID' = readRaw(eventID, mask, 0, "").id
                /\ UNCHANGED <<exit, readerPc, pending, readerErr, emitted>>
         ELSE \E linkOk \in BOOLEAN :
           IF ~linkOk
             THEN \* check(err) after os.Readlink: log.Fatalln
                  /\ exit' = "fatal"
                  /\ readerErr' = "Readlink"
                  /\ UNCHANGED <<readerPc, eventID, pending, emitted>>
           ELSE \E src \in sources :
                LET s == readRaw(eventID, mask, src[1], src[2]) IN
                /\ eventID' = s.id
                /\ pending' = s.e
                /\ emitted' = IF s.emit THEN Append(emitted, s.e.ID) ELSE emitted
                /\ readerPc' = IF s.emit THEN "send" ELSE "get"
                /\ UNCHANGED <<exit, readerErr>>
  /\ UNCHANGED <<mainPc, sigPc, cleanPc, globalVars, monDoneChan, monPc, aggVars,
                 srvVars, ctlCmds, envVars, reportWritten, storeVars, pubVars, signalled>>

\* ------------------------------------------------------------ event aggregator
\* the aggregator calls getProcessInfo for the first event, and for a later
\* event whose pid is not a key of report.Processes (a read of a nil map
\* finds no key)
introspects(r, e) == (e.ID = 1) \/ (Itoa(e.Pid) \notin DOMAIN r.Processes)

\* report.Processes[...] = pinfo on the nil map panics: the map is made only
\* in the e.ID == 1 branch, and only when that introspection succeeded
nilMapWrite(r, e, outcome) == e.ID # 1 /\ outcome = "ok" /\ ~r.ProcessesMade

eventPanics(r, e, outcome) ==
  introspects(r, e) /\ (getProcessInfoPanics(outcome) \/ nilMapWrite(r, e, outcome))

\* report.EventCount++ (the uint32 counters cannot wrap within MaxRaw events)
countEvent(r) == [r EXCEPT !.EventCount = @ + 1]

\* recordProcess with the e.ID == 1 test of the main process dropped: every
\* successful introspection sets report.MainProcess
recordProcess_AnyEventIsMain(r, e, outcome) ==
  LET key == Itoa(e.Pid)
      pinfo == getProcessInfo(e.Pid, outcome)
  IN IF pinfo # NilProcess /\ (e.ID = 1 \/ key \notin DOMAIN r.Processes)
       THEN [r EXCEPT !.MainProcess = pinfo, !.ProcessesMade = TRUE,
                      !.Processes = [k \in DOMAIN r.Processes \cup {key} |->
                                       IF k = key THEN pinfo ELSE r.Processes[k]]]
       ELSE r

\* the if e.ID == 1 { ... } else { ... } block
recordProcess(r, e, outcome) ==
  LET key == Itoa(e.Pid)
      pinfo == getProcessInfo(e.Pid, outcome)
  IN IF e.ID = 1
       THEN IF pinfo # NilProcess
              THEN [r EXCEPT !.MainProcess = pinfo, !.ProcessesMade = TRUE,
                             !.Processes = [k \in {key} |-> pinfo]]
              ELSE r
     ELSE IF key \notin DOMAIN r.Processes /\ pinfo # NilProcess
       THEN [r EXCEPT !.Processes =
               [k \in DOMAIN r.Processes \cup {key} |->
                  IF k = key THEN pinfo ELSE r.Processes[k]]]
     ELSE r

\* pi, ok := report.Processes[pid]; ok && (e.File == pi.Path)
isExe(r, e) ==
  /\ Itoa(e.Pid) \in DOMAIN r.Processes
  /\ e.File = r.Processes[Itoa(e.Pid)].Path

\* newFileInfo without the EventCount: 1 initialiser
newFileInfo_ZeroCount(e, exe) ==
  [EventCount |-> 0, FirstEventID |-> 0,
   ReadCount |-> IF e.IsRead THEN 1 ELSE 0,
   WriteCount |-> IF e.IsWrite THEN 1 ELSE 0,
   ExeCount |-> IF exe THEN 1 ELSE 0]

\* fi := &fileInfo{EventCount: 1, Name: e.File} and the three ifs;
\* FirstEventID is not assigned and keeps its zero value
newFileInfo(e, exe) ==
  [EventCount |-> 1, FirstEventID |-> 0,
   ReadCount |-> IF e.IsRead THEN 1 ELSE 0,
   WriteCount |-> IF e.IsWrite THEN 1 ELSE 0,
   ExeCount |-> IF exe THEN 1 ELSE 0]

\* updateFileInfo without existingFi.EventCount++
updateFileInfo_NoCount(fi, e, exe) ==
  [fi EXCEPT !.ReadCount = IF e.IsRead THEN @ + 1 ELSE @,
             !.WriteCount = IF e.IsWrite THEN @ + 1 ELSE @,
             !.ExeCount = IF exe THEN @ + 1 ELSE @]

\* updateFileInfo with an event that is neither a read nor a write counted
\* as a read
updateFileInfo_OpenCountsAsRead(fi, e, exe) ==
  [fi EXCEPT !.EventCount = @ + 1,
             !.ReadCount = IF e.IsRead \/ ~e.IsWrite THEN @ + 1 ELSE @,
             !.WriteCount = IF e.IsWrite THEN @ + 1 ELSE @,
             !.ExeCount = IF exe THEN @ + 1 ELSE @]

\* existingFi.EventCount++ and the three ifs
updateFileInfo(fi, e, exe) ==
  [fi EXCEPT !.EventCount = @ + 1,
             !.ReadCount = IF e.IsRead THEN @ + 1 ELSE @,
             !.WriteCount = IF e.IsWrite THEN @ + 1 ELSE @,
             !.ExeCount = IF exe THEN @ + 1 ELSE @]

\* the ProcessFiles part of the step: make the inner map if absent, then create
\* or update the fileInfo at [pid][path]
recordFile(r, e) ==
  LET key == Itoa(e.Pid)
      files == IF key \in DOMAIN r.ProcessFiles THEN r.ProcessFiles[key] ELSE EmptyMap
      fi == IF e.File \in DOMAIN files
              THEN updateFileInfo(files[e.File], e, isExe(r, e))
              ELSE newFileInfo(e, isExe(r, e))
      files2 == [f \in DOMAIN files \cup {e.File} |-> IF f = e.File THEN fi ELSE files[f]]
  IN [r EXCEPT !.ProcessFiles =
        [k \in DOMAIN r.ProcessFiles \cup {key} |->
           IF k = key THEN files2 ELSE r.ProcessFiles[k]]]

\* case e := <-eventChan: the whole body of the case
processEvent(r, e, outcome) ==
  recordFile(recordProcess(countEvent(r), e, IF introspects(r, e) THEN outcome ELSE "err"), e)

\* case e := <-eventChan of the aggregator's select, taken together with the
\* reader's eventChan <- e (the channel is unbuffered)
AggEvent ==
  /\ Alive /\ aggPc = "select" /\ readerPc = "send"
  /\ \E outcome \in IntrospectOutcomes :
       /\ IF eventPanics(report, pending, outcome)
            THEN \* the panic ends the process after report.EventCount++
                 /\ report' = countEvent(report)
                 /\ aggPc' = "panic"
                 /\ exit' = "panic"
            ELSE /\ report' = processEvent(report, pending, outcome)
                 /\ UNCHANGED <<aggPc, exit>>
       /\ firstIntro' = IF report.EventCount = 0
                          THEN [pid |-> pending.Pid, outcome |-> outcome]
                          ELSE firstIntro
  /\ drained' = IF monPc = "sendStop" THEN drained + 1 ELSE drained
  /\ readerPc' = "get"
  /\ pending' = NoEvent
  /\ UNCHANGED <<mainPc, sigPc, cleanPc, globalVars, monDoneChan, monPc,
                 eventsChan, deliveries, stopSeen, eventID, readerErr, rawCount, emitted,
                 srvVars, ctlCmds, envVars, reportWritten, storeVars, pubVars, signalled>>

\* AggStop without s = true: the loop goes on after the stop signal
AggStop_KeepsLooping ==
  /\ Alive /\ aggPc = "select" /\ monPc = "sendStop"
  /\ aggPc' = "select"
  /\ stopSeen' = TRUE
  /\ monPc' = "waitReport"
  /\ UNCHANGED <<mainPc, exit, sigPc, cleanPc, globalVars, monDoneChan, report, aggHist,
                 eventsChan, deliveries, readerVars, srvVars, ctlCmds, envVars,
                 reportWritten, storeVars, pubVars, signalled>>

\* case <-stopChan, taken together with the monitor goroutine's
\* stopEvents <- true (unbuffered): s = true, the loop ends
AggStop ==
  /\ Alive /\ aggPc = "select" /\ monPc = "sendStop"
  /\ aggPc' = "sending"
  /\ stopSeen' = TRUE
  /\ monPc' = "waitReport"
  /\ UNCHANGED <<mainPc, exit, sigPc, cleanPc, globalVars, monDoneChan, report, aggHist,
                 eventsChan, deliveries, readerVars, srvVars, ctlCmds, envVars,
                 reportWritten, storeVars, pubVars, signalled>>

\* AggDeliver with the send placed inside the loop: the aggregator goes back to
\* its select after it sent the report
AggDeliver_KeepsLooping ==
  /\ Alive /\ aggPc = "sending" /\ Len(eventsChan) < 1
  /\ eventsChan' = Append(eventsChan, "report")
  /\ deliveries' = deliveries + 1
  /\ aggPc' = "select"
  /\ UNCHANGED <<mainPc, exit, sigPc, cleanPc, globalVars, monDoneChan, monPc,
                 report, aggHist, stopSeen, readerVars, srvVars, ctlCmds, envVars,
                 reportWritten, storeVars, pubVars, signalled>>

\* eventsChan <- report (buffered, capacity 1)
AggDeliver ==
  /\ Alive /\ aggPc = "sending" /\ Len(eventsChan) < 1
  /\ eventsChan' = Append(eventsChan, "report")
  /\ deliveries' = deliveries + 1
  /\ aggPc' = "done"
  /\ UNCHANGED <<mainPc, exit, sigPc, cleanPc, globalVars, monDoneChan, monPc,
                 report, aggHist, stopSeen, readerVars, srvVars, ctlCmds, envVars,
                 reportWritten, storeVars, pubVars, signalled>>

\* ------------------------------------------------------------- cleanupOnStartup
\* os.Stat then os.Remove of each legacy socket file; fs is the set of files
\* present.  main() has no call of this function.
cleanupOnStartup(fs) == fs \ IpcFiles

\* ------------------------------------------------------------ cleanupOnShutdown
\* the three handles are treated alike: if h != nil { close; h = nil }, in the
\* order doneChan, cmdChannel (shutdownCmdChannel), evtChannel
\* (shutdownEvtChannel).  The globals are read and written without
\* synchronisation, so every read, close and write is a step of its own.
handle(k) == CASE k = "done" -> doneChan [] k = "cmd" -> cmdChannel [] k = "evt" -> evtChannel

afterHandle(k) ==
  CASE k = "done" -> [op |-> "chk", k |-> "cmd"]
    [] k = "cmd" -> [op |-> "chk", k |-> "evt"]
    [] k = "evt" -> PcRet

\* if h != nil
CleanupCheck(c) ==
  /\ Alive /\ cleanPc[c].op = "chk"
  /\ cleanPc' = [cleanPc EXCEPT ![c] =
       IF handle(cleanPc[c].k) # "nil" THEN [op |-> "close", k |-> cleanPc[c].k]
       ELSE afterHandle(cleanPc[c].k)]
  /\ UNCHANGED <<mainPc, exit, sigPc, globalVars, monDoneChan, monPc, aggVars,
                 readerVars, srvVars, ctlCmds, envVars, reportWritten, storeVars, pubVars, signalled>>

\* close(doneChan) panics on a nil or closed channel; Close() on a nil
\* interface value panics; a second Close() of a socket returns an error
CleanupClose(c) ==
  /\ Alive /\ cleanPc[c].op = "close"
  /\ LET k == cleanPc[c].k IN
       /\ closeCalls' = [closeCalls EXCEPT ![k] = @ + 1]
       /\ exit' = IF handle(k) = "nil" \/ (k = "done" /\ doneClosed) THEN "panic" ELSE exit
       /\ doneClosed' = IF k = "done" /\ handle(k) # "nil" THEN TRUE ELSE doneClosed
       /\ cmdSock' = IF k = "cmd" /\ handle(k) # "nil" THEN "closed" ELSE cmdSock
       /\ evtSock' = IF k = "evt" /\ handle(k) # "nil" THEN "closed" ELSE evtSock
       /\ cleanPc' = [cleanPc EXCEPT ![c] = [op |-> "nil", k |-> k]]
  /\ UNCHANGED <<mainPc, sigPc, doneChan, cmdChannel, evtChannel, monDoneChan, monPc,
                 aggVars, readerVars, srvVars, ctlCmds, envVars, reportWritten, storeVars,
                 pubVars, signalled>>

\* h = nil
CleanupNil(c) ==
  /\ Alive /\ cleanPc[c].op = "nil"
  /\ LET k == cleanPc[c].k IN
       /\ doneChan' = IF k = "done" THEN "nil" ELSE doneChan
       /\ cmdChannel' = IF k = "cmd" THEN "nil" ELSE cmdChannel
       /\ evtChannel' = IF k = "evt" THEN "nil" ELSE evtChannel
       /\ cleanPc' = [cleanPc EXCEPT ![c] = afterHandle(k)]
  /\ UNCHANGED <<mainPc, exit, sigPc, doneClosed, cmdSock, evtSock, closeCalls,
                 monDoneChan, monPc, aggVars, readerVars, srvVars, ctlCmds, envVars,
                 reportWritten, storeVars, pubVars, signalled>>

\* --------------------------------------------------------------- signal handler
\* sig := <-sigChan, for a signal of the list Notify was given
Signal ==
  /\ Alive /\ sigPc = "wait"
  /\ sigPc' = "cleanup"
  /\ signalled' = TRUE
  /\ cleanPc' = [cleanPc EXCEPT !["sig"] = [op |-> "chk", k |-> "done"]]
  /\ UNCHANGED <<mainPc, exit, globalVars, monDoneChan, monPc, aggVars, readerVars,
                 srvVars, ctlCmds, envVars, reportWritten, storeVars, pubVars>>

\* os.Exit(0) after cleanupOnShutdown returned
SigExit ==
  /\ Alive /\ sigPc = "cleanup" /\ cleanPc["sig"] = PcRet
  /\ exit' = "signal"
  /\ UNCHANGED <<mainPc, sigPc, cleanPc, globalVars, monDoneChan, monPc, aggVars,
                 readerVars, srvVars, ctlCmds, envVars, reportWritten, storeVars, pubVars, signalled>>

\* ------------------------------------------------------------ monitor goroutine
\* MonRecvStop with report := <-reportChan placed before stopEvents <- true
MonRecvStop_ReportFirst ==
  /\ Alive /\ monPc = "waitStop" /\ Len(monDoneChan) > 0
  /\ monDoneChan' = Tail(monDoneChan)
  /\ monPc' = "waitReport"
  /\ UNCHANGED <<mainPc, exit, sigPc, cleanPc, globalVars, aggVars, readerVars,
                 srvVars, ctlCmds, envVars, reportWritten, storeVars, pubVars, signalled>>

\* <-stopWork
MonRecvStop ==
  /\ Alive /\ monPc = "waitStop" /\ Len(monDoneChan) > 0
  /\ monDoneChan' = Tail(monDoneChan)
  /\ monPc' = "sendStop"
  /\ UNCHANGED <<mainPc, exit, sigPc, cleanPc, globalVars, aggVars, readerVars,
                 srvVars, ctlCmds, envVars, reportWritten, storeVars, pubVars, signalled>>

\* MonRecvReport with stopWorkAck <- true placed before the processing
MonRecvReport_AckFirst ==
  /\ Alive /\ monPc = "waitReport" /\ Len(eventsChan) > 0
  /\ eventsChan' = Tail(eventsChan)
  /\ monPc' = "sendAck"
  /\ UNCHANGED <<mainPc, exit, sigPc, cleanPc, globalVars, monDoneChan, aggPc, report, aggHist,
                 deliveries, stopSeen, readerVars, srvVars, ctlCmds, envVars,
                 reportWritten, storeVars, pubVars, signalled>>

\* report := <-reportChan
MonRecvReport ==
  /\ Alive /\ monPc = "waitReport" /\ Len(eventsChan) > 0
  /\ eventsChan' = Tail(eventsChan)
  /\ monPc' = "findSymlinks"
  /\ UNCHANGED <<mainPc, exit, sigPc, cleanPc, globalVars, monDoneChan, aggPc, report, aggHist,
                 deliveries, stopSeen, readerVars, srvVars, ctlCmds, envVars,
                 reportWritten, storeVars, pubVars, signalled>>

\* fileList of the monitor goroutine: every path of report.ProcessFiles
fileList(r) ==
  UNION {DOMAIN r.ProcessFiles[k] : k \in DOMAIN r.ProcessFiles}

\* filesToInodes: /usr/bin/stat -L -c %i on the paths (passed as arguments,
\* not through a shell); a path that cannot be stat'ed prints no inode
filesToInodes(files) ==
  {FsInode[f] : f \in files \cap DOMAIN FsInode}

\* the loop over the lines "%i %p" of /usr/bin/find -L / -mount:
\* info := strings.Split(v, " "); inodeToFiles[inode] gets info[1], the path
\* up to its first space
inodeToFiles(inode) ==
  {PathWords(p)[1] : p \in {q \in DOMAIN FsInode : FsInode[q] = inode}}

\* findSymlinks: result[f] = nil for every f of inodeToFiles[i], i of the inodes
findSymlinks(files) ==
  [f \in UNION {inodeToFiles(i) : i \in filesToInodes(files)} |-> NilProps]

\* allFilesMap := findSymlinks(fileList, mountPoint); newArtifactStore
MonFindSymlinks ==
  /\ Alive /\ monPc = "findSymlinks"
  /\ rawNames' = findSymlinks(fileList(report))
  /\ nameList' = <<>>
  /\ monPc' = "prepareArtifacts"
  /\ UNCHANGED <<mainPc, exit, sigPc, cleanPc, globalVars, monDoneChan, aggVars,
                 readerVars, srvVars, ctlCmds, envVars, reportWritten, lstatKind,
                 staged, imageFiles, pubVars, signalled>>

\* getArtifactFlags: R, W, X over the records of the name in every process
getArtifactFlags(r, name) ==
  LET recs == {r.ProcessFiles[k][name] :
                 k \in {q \in DOMAIN r.ProcessFiles : name \in DOMAIN r.ProcessFiles[q]}}
  IN {x \in {"R", "W", "X"} :
        \E fr \in recs : \/ (x = "R" /\ fr.ReadCount > 0)
                         \/ (x = "W" /\ fr.WriteCount > 0)
                         \/ (x = "X" /\ fr.ExeCount > 0)}

\* prepareArtifact after a successful Lstat: the props built for the name and
\* what the switch stores in rawNames.  kind is what Lstat reports: "file",
\* "symlink" (Readlink succeeds), "badlink" (Readlink fails), "dir", "other".
\* Only the regular-file and the symlink case store the props; the other
\* cases leave the nil that findSymlinks put there.  (The resolve set, which
\* nothing reads, is left out.)
prepareArtifact(r, name, kind) ==
  LET props == [FilePath |-> name, FileType |-> "", LinkRef |-> "",
                Flags |-> getArtifactFlags(r, name)]
  IN CASE kind = "file" -> [props EXCEPT !.FileType = "File"]
       [] kind = "symlink" -> [props EXCEPT !.FileType = "Symlink", !.LinkRef = LinkRef(name)]
       [] OTHER -> NilProps

\* prepareArtifacts: one prepareArtifact per key of rawNames, in the order the
\* map iteration yields them (order is an arbitrary sequence of the keys);
\* a name whose Lstat fails ("absent") is skipped, every other name is
\* appended to nameList
RECURSIVE namesInOrder(_, _)
namesInOrder(order, kindOf) ==
  IF order = <<>> THEN <<>>
  ELSE IF kindOf[Head(order)] = "absent"
         THEN namesInOrder(Tail(order), kindOf)
         ELSE <<Head(order)>> \o namesInOrder(Tail(order), kindOf)

Orders(S) ==
  {o \in [1..Cardinality(S) -> S] : \A x \in S : \E i \in DOMAIN o : o[i] = x}

MonPrepareArtifacts(kinds) ==
  /\ Alive /\ monPc = "prepareArtifacts"
  /\ \E order \in Orders(DOMAIN rawNames), kindOf \in [DOMAIN rawNames -> kinds] :
       /\ lstatKind' = kindOf
       /\ nameList' = namesInOrder(order, kindOf)
       /\ rawNames' = [f \in DOMAIN rawNames |->
                         IF kindOf[f] = "absent" THEN rawNames[f]
                         ELSE prepareArtifact(report, f, kindOf[f])]
  /\ monPc' = "saveArtifacts"
  /\ UNCHANGED <<mainPc, exit, sigPc, cleanPc, globalVars, monDoneChan, aggVars,
                 readerVars, srvVars, ctlCmds, envVars, reportWritten, staged,
                 imageFiles, pubVars, signalled>>

\* p.fileMap and p.linkMap: prepareArtifact stores the props of a name in
\* fileMap (regular file) or linkMap (symlink) in the same branch, and only
\* there, in which it stores them in rawNames; these are the keys of the two
\* maps
fileMap(raw) == {f \in DOMAIN raw : raw[f].FileType = "File"}
linkMap(raw) == {f \in DOMAIN raw : raw[f].FileType = "Symlink"}

\* the sets of names whose cpFile, MkdirAll or os.Symlink may return an error
copyFailures(raw, mayFail) ==
  IF mayFail THEN SUBSET (fileMap(raw) \cup linkMap(raw)) ELSE {{}}

\* saveArtifacts: cpFile for every name of fileMap, MkdirAll and os.Symlink
\* for every name of linkMap; an error is logged and the loop goes on
MonSaveArtifacts(mayFail) ==
  /\ Alive /\ monPc = "saveArtifacts"
  /\ \E failed \in copyFailures(rawNames, mayFail) :
       staged' = (fileMap(rawNames) \cup linkMap(rawNames)) \ failed
  /\ monPc' = "saveReport"
  /\ UNCHANGED <<mainPc, exit, sigPc, cleanPc, globalVars, monDoneChan, aggVars,
                 readerVars, srvVars, ctlCmds, envVars, reportWritten, lstatKind,
                 rawNames, nameList, imageFiles, pubVars, signalled>>

\* sort.Strings: insertion sort by byte order
RECURSIVE insertSorted(_, _)
insertSorted(x, sorted) ==
  IF sorted = <<>> THEN <<x>>
  ELSE IF strLess(x, Head(sorted)) THEN <<x>> \o sorted
  ELSE <<Head(sorted)>> \o insertSorted(x, Tail(sorted))

RECURSIVE sortStrings(_)
sortStrings(names) ==
  IF names = <<>> THEN <<>> ELSE insertSorted(Head(names), sortStrings(Tail(names)))

\* report.Image.Files = append(report.Image.Files, p.rawNames[fname]) over nameList
imageFilesOf(names, raw) == [i \in 1..Len(names) |-> raw[names[i]]]

\* MonSaveReport with the write error ignored instead of checked
MonSaveReport_IgnoreError ==
  /\ Alive /\ monPc = "saveReport"
  /\ nameList' = sortStrings(nameList)
  /\ \E ok \in BOOLEAN :
       /\ reportWritten' = ok
       /\ imageFiles' = IF ok THEN imageFilesOf(nameList', rawNames) ELSE imageFiles
       /\ monPc' = "sendAck"
       /\ UNCHANGED exit
  /\ UNCHANGED <<mainPc, sigPc, cleanPc, globalVars, monDoneChan, aggVars,
                 readerVars, srvVars, ctlCmds, envVars, lstatKind, rawNames, staged,
                 pubVars, signalled>>

\* saveReport: sorts nameList, builds image.files from rawNames in that order
\* and writes creport.json; check(err) ends the process on a failure
MonSaveReport ==
  /\ Alive /\ monPc = "saveReport"
  /\ nameList' = sortStrings(nameList)
  /\ \E ok \in BOOLEAN :
       IF ok THEN /\ reportWritten' = TRUE
                  /\ imageFiles' = imageFilesOf(nameList', rawNames)
                  /\ monPc' = "sendAck"
                  /\ UNCHANGED exit
       ELSE /\ exit' = "fatal"
            /\ UNCHANGED <<reportWritten, imageFiles, monPc>>
  /\ UNCHANGED <<mainPc, sigPc, cleanPc, globalVars, monDoneChan, aggVars,
                 readerVars, srvVars, ctlCmds, envVars, lstatKind, rawNames, staged,
                 pubVars, signalled>>

\* --------------------------------------------------------------- command server
\* select { case <-done: return; default: ... }
SrvSelect ==
  /\ Alive /\ srvPc = "loop"
  /\ srvPc' = IF srvArgs.done = "set" /\ doneClosed THEN "done" ELSE "recv"
  /\ UNCHANGED <<mainPc, exit, sigPc, cleanPc, globalVars, monDoneChan, monPc, aggVars,
                 readerVars, srvCmd, srvArgs, received, acks, ctlCmds, envVars,
                 reportWritten, storeVars, pubVars, signalled>>

\* channel.Recv() returns a command
SrvRecvCmd(cmds, maxCmds) ==
  /\ Alive /\ srvPc = "recv" /\ srvArgs.channel = "set" /\ cmdSock = "open"
  /\ Len(received) < maxCmds
  /\ \E cmd \in cmds :
       /\ received' = Append(received, cmd)
       /\ srvCmd' = cmd
  /\ srvPc' = "handoff"
  /\ UNCHANGED <<mainPc, exit, sigPc, cleanPc, globalVars, monDoneChan, monPc, aggVars,
                 readerVars, srvArgs, acks, ctlCmds, envVars, reportWritten, storeVars, pubVars,
                 signalled>>

\* channel.Recv() returns ErrRecvTimeout or another error (closed socket);
\* a nil channel value panics
SrvRecvNone ==
  /\ Alive /\ srvPc = "recv"
  /\ IF srvArgs.channel = "nil"
       THEN exit' = "panic" /\ UNCHANGED srvPc
       ELSE srvPc' = "loop" /\ UNCHANGED exit
  /\ UNCHANGED <<mainPc, sigPc, cleanPc, globalVars, monDoneChan, monPc, aggVars,
                 readerVars, srvCmd, srvArgs, received, acks, ctlCmds, envVars,
                 reportWritten, storeVars, pubVars, signalled>>

\* channel.Send([]byte("ok")); a send error is logged
SrvReply ==
  /\ Alive /\ srvPc = "reply"
  /\ acks' = IF cmdSock = "open" THEN acks + 1 ELSE acks
  /\ srvPc' = "loop"
  /\ srvCmd' = NULL
  /\ UNCHANGED <<mainPc, exit, sigPc, cleanPc, globalVars, monDoneChan, monPc, aggVars,
                 readerVars, srvArgs, received, ctlCmds, envVars, reportWritten, storeVars,
                 pubVars, signalled>>

\* ----------------------------------------------------------------------- main
\* afterCommand with the default case leaving the loop too
afterCommand_AnyFinishes(cmd) == "stopMon"

\* switch cmd { case "monitor.finish": break doneRunning; default: ignore }
afterCommand(cmd) == IF cmd = "monitor.finish" THEN "stopMon" ELSE "running"

\* what Send on the event socket can return
sendOutcomes(sock) == IF sock = "open" THEN PublishOutcomes ELSE {"error"}

MainInitSignalHandlers ==
  /\ Alive /\ mainPc = "init"
  /\ sigPc' = "wait"
  /\ mainPc' = "monitor"
  /\ UNCHANGED <<exit, cleanPc, globalVars, monDoneChan, monPc, aggVars, readerVars,
                 srvVars, ctlCmds, envVars, reportWritten, storeVars, pubVars, signalled>>

\* MainStartMonitor with nd.Mark left out of listenEvents
MainStartMonitor_NoMark ==
  /\ Alive /\ mainPc = "monitor"
  /\ aggPc' = "select"
  /\ readerPc' = "get"
  /\ monPc' = "waitStop"
  /\ mainPc' = "spawn"
  /\ UNCHANGED <<exit, sigPc, cleanPc, globalVars, monDoneChan, report, aggHist, eventsChan,
                 deliveries, stopSeen, eventID, pending, readerErr, rawCount, emitted, srvVars,
                 ctlCmds, envVars, reportWritten, storeVars, pubVars, signalled>>

\* monitor(): listenEvents initialises fanotify, marks the mount point and
\* starts the aggregator and the reader; then the monitor goroutine starts
MainStartMonitor ==
  /\ Alive /\ mainPc = "monitor"
  /\ marked' = TRUE
  /\ aggPc' = "select"
  /\ readerPc' = "get"
  /\ monPc' = "waitStop"
  /\ mainPc' = "spawn"
  /\ UNCHANGED <<exit, sigPc, cleanPc, globalVars, monDoneChan, report, aggHist, eventsChan,
                 deliveries, stopSeen, eventID, pending, readerErr, rawCount, emitted, srvVars,
                 ctlCmds, appState, ipcFiles, reportWritten, storeVars, pubVars, signalled>>

\* app.Start()
MainStartApp ==
  /\ Alive /\ mainPc = "spawn"
  /\ appState' = "running"
  /\ mainPc' = "sleep"
  /\ UNCHANGED <<exit, sigPc, cleanPc, globalVars, monDoneChan, monPc, aggVars,
                 readerVars, srvVars, ctlCmds, marked, ipcFiles, reportWritten, storeVars,
                 pubVars, signalled>>

\* time.Sleep(3 * time.Second); pidsChan <- pids (buffered, never read)
MainGraceSleep ==
  /\ Alive /\ mainPc = "sleep"
  /\ mainPc' = "mkDone"
  /\ UNCHANGED <<exit, sigPc, cleanPc, globalVars, monDoneChan, monPc, aggVars,
                 readerVars, srvVars, ctlCmds, envVars, reportWritten, storeVars, pubVars, signalled>>

\* doneChan = make(chan struct{})
MainMakeDoneChan ==
  /\ Alive /\ mainPc = "mkDone"
  /\ doneChan' = "set"
  /\ mainPc' = "evtSock"
  /\ UNCHANGED <<exit, sigPc, cleanPc, doneClosed, cmdChannel, evtChannel, cmdSock,
                 evtSock, closeCalls, monDoneChan, monPc, aggVars, readerVars, srvVars,
                 ctlCmds, envVars, reportWritten, storeVars, pubVars, signalled>>

\* evtChannel, err = newEvtPublisher(evtChannelAddr)
MainNewEvtPublisher ==
  /\ Alive /\ mainPc = "evtSock"
  /\ evtChannel' = "set"
  /\ evtSock' = "open"
  /\ mainPc' = "cmdSock"
  /\ UNCHANGED <<exit, sigPc, cleanPc, doneChan, doneClosed, cmdChannel, cmdSock,
                 closeCalls, monDoneChan, monPc, aggVars, readerVars, srvVars, ctlCmds,
                 envVars, reportWritten, storeVars, pubVars, signalled>>

\* cmdChannel, err = newCmdServer(cmdChannelAddr)
MainNewCmdServer ==
  /\ Alive /\ mainPc = "cmdSock"
  /\ cmdChannel' = "set"
  /\ cmdSock' = "open"
  /\ mainPc' = "runSrv"
  /\ UNCHANGED <<exit, sigPc, cleanPc, doneChan, doneClosed, evtChannel, evtSock,
                 closeCalls, monDoneChan, monPc, aggVars, readerVars, srvVars, ctlCmds,
                 envVars, reportWritten, storeVars, pubVars, signalled>>

\* cmdChan, err := runCmdServer(cmdChannel, doneChan)
MainRunCmdServer ==
  /\ Alive /\ mainPc = "runSrv"
  /\ srvArgs' = [channel |-> cmdChannel, done |-> doneChan]
  /\ srvPc' = "loop"
  /\ mainPc' = "running"
  /\ UNCHANGED <<exit, sigPc, cleanPc, globalVars, monDoneChan, monPc, aggVars,
                 readerVars, srvCmd, received, acks, ctlCmds, envVars, reportWritten, storeVars,
                 pubVars, signalled>>

\* failWhen / failOnError / check on a startup step: log.Fatalln
MainFatal ==
  /\ Alive /\ mainPc \in {"init", "monitor", "spawn", "evtSock", "cmdSock"}
  /\ exit' = "fatal"
  /\ UNCHANGED <<mainPc, sigPc, cleanPc, globalVars, monDoneChan, monPc, aggVars,
                 readerVars, srvVars, ctlCmds, envVars, reportWritten, storeVars, pubVars, signalled>>

\* case cmd := <-cmdChan of the doneRunning loop, taken together with the
\* server's cmdChan <- cmd (unbuffered)
MainRecvCmd ==
  /\ Alive /\ mainPc = "running" /\ srvPc = "handoff"
  /\ ctlCmds' = Append(ctlCmds, srvCmd)
  /\ mainPc' = afterCommand(srvCmd)
  /\ srvPc' = "reply"
  /\ UNCHANGED <<exit, sigPc, cleanPc, globalVars, monDoneChan, monPc, aggVars,
                 readerVars, srvCmd, srvArgs, received, acks, envVars, reportWritten, storeVars,
                 pubVars, signalled>>

\* monDoneChan <- true (buffered, capacity 1)
MainStopMonitor ==
  /\ Alive /\ mainPc = "stopMon" /\ Len(monDoneChan) < 1
  /\ monDoneChan' = Append(monDoneChan, TRUE)
  /\ mainPc' = "waitAck"
  /\ UNCHANGED <<exit, sigPc, cleanPc, globalVars, monPc, aggVars, readerVars,
                 srvVars, ctlCmds, envVars, reportWritten, storeVars, pubVars, signalled>>

\* <-monDoneAckChan, taken together with the monitor goroutine's
\* stopWorkAck <- true (unbuffered)
MainRecvAck ==
  /\ Alive /\ mainPc = "waitAck" /\ monPc = "sendAck"
  /\ mainPc' = "publish"
  /\ monPc' = "done"
  /\ UNCHANGED <<exit, sigPc, cleanPc, globalVars, monDoneChan, aggVars, readerVars,
                 srvVars, ctlCmds, envVars, reportWritten, storeVars, pubVars, signalled>>

\* MainPublish without the break after a successful publish
MainPublish_NoBreak ==
  /\ Alive /\ mainPc = "publish" /\ ptry < PublishTries
  /\ IF evtChannel = "nil"
       THEN /\ exit' = "panic"
            /\ UNCHANGED <<mainPc, ptry, published>>
       ELSE \E outcome \in sendOutcomes(evtSock) :
            /\ ptry' = ptry + 1
            /\ published' = (published \/ outcome = "ok")
            /\ mainPc' = IF ptry' = PublishTries THEN "done" ELSE "publish"
            /\ UNCHANGED exit
  /\ UNCHANGED <<sigPc, cleanPc, globalVars, monDoneChan, monPc, aggVars, readerVars,
                 srvVars, ctlCmds, envVars, reportWritten, storeVars, signalled>>

\* one iteration of the publish loop: publishEvt(evtChannel, ...)
MainPublish ==
  /\ Alive /\ mainPc = "publish" /\ ptry < PublishTries
  /\ IF evtChannel = "nil"
       THEN \* Send on a nil interface value
            /\ exit' = "panic"
            /\ UNCHANGED <<mainPc, ptry, published>>
       ELSE \E outcome \in sendOutcomes(evtSock) :
            /\ ptry' = ptry + 1
            /\ published' = (outcome = "ok")
            /\ mainPc' = IF outcome = "ok" \/ ptry' = PublishTries THEN "done" ELSE "publish"
            /\ UNCHANGED exit
  /\ UNCHANGED <<sigPc, cleanPc, globalVars, monDoneChan, monPc, aggVars, readerVars,
                 srvVars, ctlCmds, envVars, reportWritten, storeVars, signalled>>

\* main returns: the deferred app.Wait() runs first and blocks until the target
\* has exited, then the deferred cleanupOnShutdown starts
MainAppWait ==
  /\ Alive /\ mainPc = "done" /\ appState = "exited"
  /\ mainPc' = "cleanup"
  /\ cleanPc' = [cleanPc EXCEPT !["main"] = [op |-> "chk", k |-> "done"]]
  /\ UNCHANGED <<exit, sigPc, globalVars, monDoneChan, monPc, aggVars, readerVars,
                 srvVars, ctlCmds, envVars, reportWritten, storeVars, pubVars, signalled>>

\* the deferred cleanup returned: the process exits with code 0
MainExit ==
  /\ Alive /\ mainPc = "cleanup" /\ cleanPc["main"] = PcRet
  /\ exit' = "return"
  /\ UNCHANGED <<mainPc, sigPc, cleanPc, globalVars, monDoneChan, monPc, aggVars,
                 readerVars, srvVars, ctlCmds, envVars, reportWritten, storeVars, pubVars, signalled>>

\* the target application ends
AppExit ==
  /\ Alive /\ appState = "running"
  /\ appState' = "exited"
  /\ UNCHANGED <<mainPc, exit, sigPc, cleanPc, globalVars, monDoneChan, monPc, aggVars,
                 readerVars, srvVars, ctlCmds, marked, ipcFiles, reportWritten, storeVars, pubVars,
                 signalled>>

\* ------------------------------------------------------------- specifications
Next ==
  \/ MainInitSignalHandlers \/ MainStartMonitor \/ MainStartApp \/ MainGraceSleep
  \/ MainMakeDoneChan \/ MainNewEvtPublisher \/ MainNewCmdServer \/ MainRunCmdServer
  \/ MainFatal \/ MainRecvCmd \/ MainStopMonitor \/ MainRecvAck \/ MainPublish
  \/ MainAppWait \/ MainExit \/ AppExit
  \/ Signal \/ SigExit
  \/ \E c \in Callers : CleanupCheck(c)
  \/ \E c \in Callers : CleanupClose(c)
  \/ \E c \in Callers : CleanupNil(c)
  \/ MonRecvStop \/ MonRecvReport
  \/ MonFindSymlinks \/ MonPrepareArtifacts(CtlKinds) \/ MonSaveArtifacts(FALSE) \/ MonSaveReport
  \/ SrvSelect \/ SrvRecvCmd(Commands, MaxCmds) \/ SrvRecvNone \/ SrvReply
  \/ ReaderGetEvent(CtlMasks, CtlSources, MaxCtlRaw)
  \/ AggEvent \/ AggStop \/ AggDeliver

Spec == Init /\ [][Next]_vars

\* The aggregation specification: the reader and the aggregator under the full
\* event domain (every mask, every source, MaxRaw raw events).  It starts where
\* the controller has taken monitor.finish and the monitor goroutine is blocked
\* in stopEvents <- true before the kernel has reported an event, so that the
\* aggregator's select chooses between the stop signal and the reader's event
\* at every point of the event stream.  The actions left out read and write
\* none of the reader's or the aggregator's variables.
AggInit ==
  /\ mainPc = "waitAck" /\ exit = "none" /\ sigPc = "wait"
  /\ cleanPc = [c \in Callers |-> PcIdle]
  /\ doneChan = "set" /\ doneClosed = FALSE
  /\ cmdChannel = "set" /\ evtChannel = "set"
  /\ cmdSock = "open" /\ evtSock = "open"
  /\ closeCalls = [k \in Handles |-> 0]
  /\ monDoneChan = <<>> /\ monPc = "sendStop" /\ aggPc = "select"
  /\ report = newReport /\ eventsChan = <<>> /\ deliveries = 0
  /\ stopSeen = FALSE /\ firstIntro = NoIntro /\ drained = 0
  /\ readerPc = "get" /\ eventID = 0
  /\ pending = NoEvent /\ readerErr = "none" /\ rawCount = 0 /\ emitted = <<>>
  /\ srvPc = "reply" /\ srvCmd = "monitor.finish"
  /\ srvArgs = [channel |-> "set", done |-> "set"]
  /\ received = <<"monitor.finish">> /\ acks = 0
  /\ ctlCmds = <<"monitor.finish">>
  /\ appState = "running" /\ marked = TRUE /\ ipcFiles = {}
  /\ reportWritten = FALSE /\ ptry = 0 /\ published = FALSE
  /\ lstatKind = EmptyMap /\ rawNames = EmptyMap /\ nameList = <<>> /\ staged = {} /\ imageFiles = <<>>
  /\ signalled = FALSE

AggNext ==
  \/ ReaderGetEvent(AllMasks, Sources, MaxRaw)
  \/ AggEvent \/ AggStop \/ AggDeliver

AggSpec == AggInit /\ [][AggNext]_vars

\* The drain specification: the controller, the command server, the monitor
\* goroutine, the aggregator and the reader from the start of main() to the
\* publish loop, without signals and without the deferred shutdown.  Every
\* goroutine that can take a step is eventually scheduled; the select of the
\* aggregator chooses among its ready cases at random, so a case that is ready
\* again and again is eventually chosen.
LiveNext ==
  \/ MainInitSignalHandlers \/ MainStartMonitor \/ MainStartApp \/ MainGraceSleep
  \/ MainMakeDoneChan \/ MainNewEvtPublisher \/ MainNewCmdServer \/ MainRunCmdServer
  \/ MainFatal \/ MainRecvCmd \/ MainStopMonitor \/ MainRecvAck \/ MainPublish
  \/ MonRecvStop \/ MonRecvReport
  \/ MonFindSymlinks \/ MonPrepareArtifacts(CtlKinds) \/ MonSaveArtifacts(FALSE) \/ MonSaveReport
  \/ SrvSelect \/ SrvRecvCmd(Commands, MaxCmds) \/ SrvRecvNone \/ SrvReply
  \/ ReaderGetEvent(CtlMasks, CtlSources, MaxCtlRaw)
  \/ AggEvent \/ AggStop \/ AggDeliver

LiveFairness ==
  /\ WF_vars(MainStopMonitor) /\ WF_vars(MainRecvAck) /\ WF_vars(MainPublish)
  /\ WF_vars(MonRecvStop) /\ WF_vars(MonRecvReport)
  /\ WF_vars(MonFindSymlinks) /\ WF_vars(MonPrepareArtifacts(CtlKinds))
  /\ WF_vars(MonSaveArtifacts(FALSE)) /\ WF_vars(MonSaveReport)
  /\ SF_vars(AggStop) /\ WF_vars(AggDeliver)

LiveSpec == Init /\ [][LiveNext]_vars /\ LiveFairness

\* The artifact specification: from the same start as AggSpec, events of every
\* source, the stop, the delivery of the report, and the monitor goroutine's
\* findSymlinks and saveResults with every Lstat outcome for every name.
StoreNext ==
  \/ ReaderGetEvent(CtlMasks, StoreSources, MaxCtlRaw)
  \/ AggEvent \/ AggStop \/ AggDeliver
  \/ MonRecvReport
  \/ MonFindSymlinks \/ MonPrepareArtifacts(LstatKinds) \/ MonSaveArtifacts(TRUE) \/ MonSaveReport

StoreSpec == AggInit /\ [][StoreNext]_vars

\* The startup specification: main() up to the command loop, entered with any
\* set of the legacy ipc socket files left in /tmp, with the reader, the
\* aggregator, the signal handler and the target running beside it.
StartupInit ==
  \E fs \in SUBSET IpcFiles :
    /\ ipcFiles = fs
    /\ mainPc = "init" /\ exit = "none" /\ sigPc = "off"
    /\ cleanPc = [c \in Callers |-> PcIdle]
    /\ doneChan = "nil" /\ doneClosed = FALSE
    /\ cmdChannel = "nil" /\ evtChannel = "nil"
    /\ cmdSock = "none" /\ evtSock = "none"
    /\ closeCalls = [k \in Handles |-> 0]
    /\ monDoneChan = <<>> /\ monPc = "off" /\ aggPc = "off"
    /\ report = newReport /\ eventsChan = <<>> /\ deliveries = 0
    /\ stopSeen = FALSE /\ firstIntro = NoIntro /\ drained = 0
    /\ readerPc = "off" /\ eventID = 0
    /\ pending = NoEvent /\ readerErr = "none" /\ rawCount = 0 /\ emitted = <<>>
    /\ srvPc = "off" /\ srvCmd = NULL
    /\ srvArgs = [channel |-> "nil", done |-> "nil"]
    /\ received = <<>> /\ acks = 0 /\ ctlCmds = <<>>
    /\ appState = "notStarted" /\ marked = FALSE
    /\ reportWritten = FALSE /\ ptry = 0 /\ published = FALSE
    /\ lstatKind = EmptyMap /\ rawNames = EmptyMap /\ nameList = <<>> /\ staged = {} /\ imageFiles = <<>>
    /\ signalled = FALSE

StartupNext ==
  \/ MainInitSignalHandlers \/ MainStartMonitor \/ MainStartApp \/ MainGraceSleep
  \/ MainMakeDoneChan \/ MainNewEvtPublisher \/ MainNewCmdServer \/ MainRunCmdServer
  \/ MainFatal \/ AppExit
  \/ Signal \/ SigExit
  \/ CleanupCheck("sig") \/ CleanupClose("sig") \/ CleanupNil("sig")
  \/ ReaderGetEvent(CtlMasks, CtlSources, MaxCtlRaw)
  \/ AggEvent

StartupSpec == StartupInit /\ [][StartupNext]_vars

\* ----------------------------------------------------------------- properties
RECURSIVE SumOver(_, _)
SumOver(f, S) ==
  IF S = {} THEN 0
  ELSE LET x == CHOOSE y \in S : TRUE IN f[x] + SumOver(f, S \ {x})

\* every fileInfo of the report, and the sum of their EventCount fields
FileRecords(r) ==
  UNION {{r.ProcessFiles[k][f] : f \in DOMAIN r.ProcessFiles[k]} : k \in DOMAIN r.ProcessFiles}

totalFileEvents(r) ==
  SumOver([k \in DOMAIN r.ProcessFiles |->
             SumOver([f \in DOMAIN r.ProcessFiles[k] |-> r.ProcessFiles[k][f].EventCount],
                     DOMAIN r.ProcessFiles[k])],
          DOMAIN r.ProcessFiles)

\* C1: after every completed event-processing step, and in the report that is
\* delivered, report.EventCount is the sum of EventCount over every fileInfo of
\* every pid of ProcessFiles.  (A step that panics never completes: the process
\* ends inside it.)
C1_EventCountIsSum ==
  aggPc # "panic" => report.EventCount = totalFileEvents(report)

\* C1 witness: a delivered report of three events spread over two pids
C1_Witness ==
  /\ aggPc = "done" /\ deliveries = 1
  /\ report.EventCount = 3
  /\ Cardinality(DOMAIN report.ProcessFiles) = 2

\* C9 as claimed: reads + writes <= event_count for every fileInfo
C9_ReadsPlusWritesBounded ==
  \A fr \in FileRecords(report) : fr.ReadCount + fr.WriteCount <= fr.EventCount

\* C9 amended: each of reads and writes is at most event_count (so their sum is
\* at most twice event_count); an event that carries both the access and the
\* modify bit counts once as an event and once in each of reads and writes.
C9_ReadsAndWritesEachBounded ==
  \A fr \in FileRecords(report) :
    fr.ReadCount <= fr.EventCount /\ fr.WriteCount <= fr.EventCount

\* C9 witness: a fileInfo updated at least once whose reads and writes together
\* exceed its events
C9_Witness ==
  \E fr \in FileRecords(report) :
    fr.EventCount >= 2 /\ fr.ReadCount + fr.WriteCount > fr.EventCount

\* the masks getEvent drops: the queue-overflow marker, or no access bit set
DroppedMasks ==
  {mask \in AllMasks :
     isOverflow(mask) \/ mask \cap {FAN_OPEN, FAN_ACCESS, FAN_MODIFY} = {}}

\* C10: the ids the reader emitted are 1, 2, 3, ... with no gap and no repeat,
\* the counter is the number of events emitted, and an iteration on a raw event
\* with the overflow bit, or with none of the open/access/modify bits, emits
\* nothing and leaves the counter as it was.
C10_DenseIds ==
  /\ \A i \in 1..Len(emitted) : emitted[i] = i
  /\ eventID = Len(emitted)
  /\ \A mask \in DroppedMasks, src \in Sources :
       /\ ~readRaw(eventID, mask, src[1], src[2]).emit
       /\ readRaw(eventID, mask, src[1], src[2]).id = eventID

\* C10 witness: three raw events read, one of them dropped, two emitted
C10_Witness ==
  /\ exit = "none" /\ rawCount = 3
  /\ emitted = <<1, 2>>

\* C2: the report is sent on the report channel at most once, only by an
\* aggregator that received the stop signal, and the stop signal is received
\* only after the controller took monitor.finish; once the stop signal was
\* received the aggregator has left its event loop and is either at the send,
\* which cannot block because the channel is empty, or past it.
C2_ReportDeliveredOnce ==
  /\ deliveries <= 1
  /\ (deliveries = 1) <=> (aggPc = "done")
  /\ stopSeen <=> (aggPc \in {"sending", "done"})
  /\ aggPc = "sending" => Len(eventsChan) = 0
  /\ stopSeen => /\ Len(ctlCmds) > 0
                 /\ ctlCmds[Len(ctlCmds)] = "monitor.finish"
                 /\ mainPc \in {"waitAck", "publish", "done", "cleanup"}

\* C2 witness: the report was delivered after an event was processed
C2_Witness ==
  /\ deliveries = 1 /\ stopSeen
  /\ report.EventCount = 1

\* C3: the controller reaches the publish loop, and makes a publish attempt,
\* only after the report was delivered, findSymlinks, prepareArtifacts and
\* saveArtifacts have run and creport.json has been written.
C3_PublishAfterReport ==
  (mainPc \in {"publish", "done", "cleanup"} \/ ptry > 0 \/ published)
    => (deliveries = 1 /\ reportWritten /\ monPc = "done")

\* C3 witness: the event was published at the second attempt
C3_Witness ==
  /\ published /\ ptry = 2
  /\ reportWritten

\* C4 as claimed, in runs without a signal: every command received was
\* acknowledged before the server reads the next message, and before the
\* command socket is closed.
C4_EveryCommandAcked ==
  ~signalled =>
    /\ srvPc = "recv" => acks = Len(received)
    /\ cmdSock = "closed" => acks = Len(received)

\* C5: the step in which the controller, in its command loop, takes a command
\* other than monitor.finish leaves the controller in the loop and changes
\* neither the stop channel, the monitor goroutine, the aggregator and its
\* report, the sockets and the done channel, nor the report file or the publish
\* state; and the server's next step acknowledges the command.
C5_OtherCommandIgnored ==
  [][ /\ (srvPc = "handoff" /\ srvPc' = "reply" /\ srvCmd # "monitor.finish")
           => /\ mainPc = "running" /\ mainPc' = "running"
              /\ UNCHANGED <<monDoneChan, monPc, aggVars, globalVars, reportWritten, storeVars,
                             pubVars, exit>>
      /\ (srvPc = "reply" /\ srvPc' # "reply" /\ mainPc = "running" /\ ~signalled)
           => acks' = acks + 1 ]_vars

\* C5 witness: the controller took monitor.other, stays in its loop, and the
\* command was acknowledged
C5_Witness ==
  /\ mainPc = "running" /\ ~signalled
  /\ ctlCmds = <<"monitor.other">>
  /\ acks = 1

\* C6 as claimed: the done channel and each socket are closed at most once
C6_ClosedAtMostOnce ==
  \A k \in Handles : closeCalls[k] <= 1

\* C7 as claimed: a process that ends after the aggregator completed an
\* event-processing step has written creport.json
C7_ReportAlwaysWritten ==
  (exit # "none" /\ totalFileEvents(report) >= 1) => reportWritten

\* C7 amended: when the run ends by main returning (the monitor.finish path),
\* creport.json was written before the process exits, whether or not an event
\* was processed; a run ended by a signal, a fatal error or a panic may exit
\* without it.
C7_ReportWrittenOnReturn ==
  exit = "return" => reportWritten

\* C7 witness: main returned after an event was processed
C7_Witness ==
  /\ exit = "return" /\ ~signalled
  /\ totalFileEvents(report) = 1

\* C8 as claimed: once the notification loop has started, the legacy ipc files
\* are in the state cleanupOnStartup leaves them in
C8_StaleIpcRemoved ==
  marked => ipcFiles = cleanupOnStartup(ipcFiles)

\* C11: once an event has been processed, report.MainProcess is the process
\* record of the pid of the first event processed when the introspection of
\* that pid succeeded for that event, and nil otherwise; as the first event is
\* fixed, no later event sets or changes it.
C11_MainProcessIsFirst ==
  report.EventCount >= 1 =>
    report.MainProcess =
      IF firstIntro.outcome = "ok"
        THEN [Pid |-> firstIntro.pid, Path |-> ExePath(firstIntro.pid)]
        ELSE NilProcess

\* C11 witness: three events processed, the first by pid 7, a later one of
\* pid 12 introspected and recorded, the main process still that of pid 7
C11_Witness ==
  /\ report.EventCount = 3 /\ aggPc # "panic"
  /\ firstIntro = [pid |-> 7, outcome |-> "ok"]
  /\ "12" \in DOMAIN report.Processes
  /\ report.MainProcess.Pid = 7

\* C12: every publish attempt is one of at most PublishTries, is made only
\* while no attempt has succeeded, and never ends the process; after a
\* successful attempt, or after the last failed one (timeout or any other send
\* error), the controller leaves the loop for its normal shutdown, from which
\* it only goes on to the deferred cleanup.
C12_PublishAtMostThrice ==
  [][ /\ (ptry' # ptry =>
            /\ ptry' = ptry + 1 /\ ptry' <= PublishTries
            /\ mainPc = "publish" /\ ~published
            /\ exit' = exit
            /\ mainPc' = IF published' \/ ptry' = PublishTries THEN "done" ELSE "publish")
      /\ (mainPc = "done" => mainPc' \in {"done", "cleanup"}) ]_vars

\* C12 witness: three attempts failed and main returned through its cleanup
C12_Witness ==
  /\ ptry = PublishTries /\ ~published
  /\ exit = "return" /\ ~signalled

\* ------------------------------------------- the step on one received event
\* the aggregator's select can take the event the reader is sending
eventReady == Alive /\ aggPc = "select" /\ readerPc = "send"

hasFile(r, e) ==
  /\ Itoa(e.Pid) \in DOMAIN r.ProcessFiles
  /\ e.File \in DOMAIN r.ProcessFiles[Itoa(e.Pid)]

fileOf(r, e) == r.ProcessFiles[Itoa(e.Pid)][e.File]

\* the counters of the record of e's (pid, path) pair, all zero while absent
countersOf(r, e) ==
  IF hasFile(r, e) THEN fileOf(r, e)
  ELSE [EventCount |-> 0, FirstEventID |-> 0, ReadCount |-> 0,
        WriteCount |-> 0, ExeCount |-> 0]

flag(b) == IF b THEN 1 ELSE 0

\* C13 as claimed: for every pid that has a process record, the file record
\* at (pid, exe path of that record) has ExeCount = EventCount
C13_ExecsEqualEventCount ==
  \A k \in DOMAIN report.Processes :
    (/\ k \in DOMAIN report.ProcessFiles
     /\ report.Processes[k].Path \in DOMAIN report.ProcessFiles[k])
      => LET fr == report.ProcessFiles[k][report.Processes[k].Path]
         IN fr.ExeCount = fr.EventCount

\* C17 as claimed: whenever the introspection attempted for an event fails
\* (getProcessInfo returns an error, or the stat file cannot be read), the
\* aggregator completes the step: EventCount and the record of the pair are
\* incremented with the read/write flags, ExeCount and Processes are left
\* alone
C17_UninspectableStillCounted ==
  eventReady =>
    \A outcome \in IntrospectOutcomes \ {"ok"} :
      introspects(report, pending) =>
        /\ ~eventPanics(report, pending, outcome)
        /\ LET r2 == processEvent(report, pending, outcome)
               old == countersOf(report, pending)
               new == fileOf(r2, pending)
           IN /\ r2.EventCount = report.EventCount + 1
              /\ new.EventCount = old.EventCount + 1
              /\ new.ReadCount = old.ReadCount + flag(pending.IsRead)
              /\ new.WriteCount = old.WriteCount + flag(pending.IsWrite)
              /\ new.ExeCount = old.ExeCount
              /\ r2.Processes = report.Processes

\* C18 as claimed: an event with id > 1 whose pid is not a key of Processes
\* and whose introspection succeeds is processed to the end and leaves its
\* pid a key of Processes
C18_LaterIntrospectionInserts ==
  (eventReady /\ pending.ID > 1 /\ Itoa(pending.Pid) \notin DOMAIN report.Processes)
    => /\ ~eventPanics(report, pending, "ok")
       /\ Itoa(pending.Pid) \in DOMAIN processEvent(report, pending, "ok").Processes

\* C19 as claimed: processing an event leaves the FirstEventID of the record
\* of its pair at the id of the event that created the record
C19_FirstEventIdRecorded ==
  eventReady =>
    \A outcome \in IntrospectOutcomes :
      ~eventPanics(report, pending, outcome) =>
        fileOf(processEvent(report, pending, outcome), pending).FirstEventID =
          IF hasFile(report, pending)
            THEN fileOf(report, pending).FirstEventID
            ELSE pending.ID

\* C20 as claimed: an event with neither the read nor the write flag adds one
\* to EventCount of the report and of its record and leaves ReadCount,
\* WriteCount and ExeCount of the record as they were
C20_OpenOnlyLeavesRWX ==
  (eventReady /\ ~pending.IsRead /\ ~pending.IsWrite) =>
    \A outcome \in IntrospectOutcomes :
      ~eventPanics(report, pending, outcome) =>
        LET r2 == processEvent(report, pending, outcome)
            old == countersOf(report, pending)
            new == fileOf(r2, pending)
        IN /\ r2.EventCount = report.EventCount + 1
           /\ new.EventCount = old.EventCount + 1
           /\ new.ReadCount = old.ReadCount
           /\ new.WriteCount = old.WriteCount
           /\ new.ExeCount = old.ExeCount

\* C20: an event with neither the read nor the write flag that the aggregator
\* processes to the end adds one to EventCount of the report and of its
\* record and leaves ReadCount and WriteCount of the record as they were;
\* ExeCount is incremented when, after the step, Processes holds a record for
\* the event's pid whose Path is the event's path, and left alone otherwise.
C20_OpenOnlyLeavesRW ==
  (eventReady /\ ~pending.IsRead /\ ~pending.IsWrite) =>
    \A outcome \in IntrospectOutcomes :
      ~eventPanics(report, pending, outcome) =>
        LET r2 == processEvent(report, pending, outcome)
            old == countersOf(report, pending)
            new == fileOf(r2, pending)
            key == Itoa(pending.Pid)
            onExe == /\ key \in DOMAIN r2.Processes
                     /\ r2.Processes[key].Path = pending.File
        IN /\ r2.EventCount = report.EventCount + 1
           /\ new.EventCount = old.EventCount + 1
           /\ new.ReadCount = old.ReadCount
           /\ new.WriteCount = old.WriteCount
           /\ new.ExeCount = old.ExeCount + flag(onExe)

\* C20 witness: two open-only events of pid 7 on its executable processed,
\* and a third open-only event on another path about to be received
C20_Witness ==
  /\ eventReady /\ ~pending.IsRead /\ ~pending.IsWrite
  /\ pending.File = "/etc/hostname"
  /\ "7" \in DOMAIN report.ProcessFiles
  /\ "/bin/app" \in DOMAIN report.ProcessFiles["7"]
  /\ report.ProcessFiles["7"]["/bin/app"] =
       [EventCount |-> 2, FirstEventID |-> 0, ReadCount |-> 0,
        WriteCount |-> 0, ExeCount |-> 2]

\* C15 as claimed: at most one event is processed while the monitor goroutine
\* is blocked in stopEvents <- true
C15_AtMostOneAfterStop ==
  drained <= 1

\* C14 as claimed: the image.files written to creport.json has one entry for
\* every name that passed Lstat (the names of nameList), each entry carries
\* its name as file_path, and the entries are in strictly ascending order of
\* file_path (so no path is repeated)
C14_FilesSortedAndComplete ==
  reportWritten =>
    /\ Len(imageFiles) = Len(nameList)
    /\ \A i \in DOMAIN imageFiles : imageFiles[i].FilePath = nameList[i]
    /\ \A i, j \in DOMAIN imageFiles :
         i < j => strLess(imageFiles[i].FilePath, imageFiles[j].FilePath)

C21_ReadlinkFailureDropsEvent ==
  readerErr = "Readlink" => (exit = "none" /\ readerPc = "get")

\* C22: the startup steps of main() happen in one order.  The mount point is
\* marked, and the aggregator, the reader and the monitor goroutine exist, only
\* once the signal handlers are installed; the target is spawned only once the
\* mark is in place and the aggregator loop was started; the event and command
\* sockets are opened, and the command server started, only after the spawn
\* and the grace sleep.  So no command is received, and no event caused by the
\* target is read, before the mark is in place.
StartedMonitor == aggPc # "off" /\ readerPc # "off" /\ monPc # "off"

C22_StartupOrder ==
  /\ marked => sigPc # "off"
  /\ (aggPc # "off" \/ readerPc # "off" \/ monPc # "off") => (marked /\ StartedMonitor)
  /\ appState # "notStarted" => (marked /\ StartedMonitor)
  /\ (evtSock # "none" \/ cmdSock # "none" \/ srvPc # "off" \/ doneChan # "nil")
       => /\ appState # "notStarted"
          /\ mainPc \notin {"init", "monitor", "spawn", "sleep"}
  /\ cmdSock # "none" => evtSock # "none"
  /\ Len(received) > 0 => (marked /\ cmdSock # "none")
  /\ (rawCount > 0 \/ eventID > 0 \/ pending # NoEvent) => marked

\* C22 witness: monitor.finish was accepted and an event of the running target
\* was processed, after the whole startup sequence
C22_Witness ==
  /\ exit = "none" /\ ~signalled
  /\ received = <<"monitor.finish">>
  /\ appState = "running" /\ marked
  /\ report.EventCount = 1

\* C23 as claimed: in the creport.json written, every name Lstat reported as
\* a directory, or as a type that is neither regular file nor symlink, has an
\* entry of image.files with its file_path and file_type Dir or Unknown; and
\* no such name was copied or linked under the store location
C23_DirAndOtherClassified ==
  /\ reportWritten =>
       \A f \in DOMAIN lstatKind :
         lstatKind[f] \in {"dir", "other"} =>
           \E i \in DOMAIN imageFiles :
             /\ imageFiles[i].FilePath = f
             /\ imageFiles[i].FileType = IF lstatKind[f] = "dir" THEN "Dir" ELSE "Unknown"
  /\ \A f \in staged : lstatKind[f] \notin {"dir", "other"}

\* C24 as claimed: once findSymlinks has run, for every path of the report
\* that stat resolves to an inode, the path itself and every name under the
\* mount point with the same inode is a key of the map findSymlinks returned
foundSymlinks == monPc \in {"prepareArtifacts", "saveArtifacts", "saveReport", "sendAck", "done"}

C24_NoPathOmitted ==
  foundSymlinks =>
    \A p \in fileList(report) \cap DOMAIN FsInode :
      \A q \in DOMAIN FsInode :
        FsInode[q] = FsInode[p] => q \in DOMAIN rawNames

\* the positions at which the monitor goroutine holds and reads the report
reportReaders == {"findSymlinks", "prepareArtifacts", "saveArtifacts", "saveReport"}

\* C25: the report is used by one goroutine at a time.  The monitor goroutine
\* holds it only after the aggregator sent it and ended; every step that changes
\* the report is a step of the aggregator in its loop, taking an event from the
\* reader, before the stop; once the aggregator has left the loop (at the send
\* or past it) no step changes the report, so no count changes after delivery.
C25_ReportSingleOwner ==
  [][ /\ (monPc \in reportReaders \/ monPc' \in reportReaders)
           => (aggPc = "done" /\ deliveries = 1 /\ stopSeen)
      /\ report' # report
           => /\ aggPc = "select" /\ readerPc = "send" /\ ~stopSeen
              /\ deliveries = 0 /\ monPc \notin reportReaders
      /\ aggPc \in {"sending", "done"}
           => (report' = report /\ aggPc' \in {"sending", "done"}) ]_vars

\* C25 witness: the monitor goroutine has written the report it was handed,
\* while an event the reader emitted was never taken by the aggregator
C25_Witness ==
  /\ monPc = "sendAck" /\ reportWritten
  /\ aggPc = "done" /\ readerPc = "send"
  /\ eventID = 1 /\ report.EventCount = 0

\* C26: the aggregator takes the emitted events in the order of their ids and
\* skips none.  The reader's counter is report.EventCount while the reader holds
\* no event and report.EventCount + 1 while it is sending one; the event it is
\* sending has the id report.EventCount + 1, so the step that takes it, whether
\* it completes or panics, leaves report.EventCount at the id of the event
\* taken; and a delivered report misses at most one emitted event, the one the
\* reader is still sending.
C26_ProcessedInIdOrder ==
  /\ eventID = report.EventCount + flag(readerPc = "send")
  /\ readerPc = "send" <=> pending # NoEvent
  /\ readerPc = "send" => pending.ID = report.EventCount + 1
  /\ eventReady =>
       \A outcome \in IntrospectOutcomes :
         /\ countEvent(report).EventCount = pending.ID
         /\ processEvent(report, pending, outcome).EventCount = pending.ID
  /\ deliveries = 1 =>
       /\ Len(emitted) \in {report.EventCount, report.EventCount + 1}
       /\ Len(emitted) = report.EventCount + 1 => readerPc = "send"

\* C26 witness: the report was delivered with two events counted while the
\* reader is blocked sending the third
C26_Witness ==
  /\ deliveries = 1 /\ aggPc = "done"
  /\ report.EventCount = 2
  /\ readerPc = "send" /\ pending.ID = 3 /\ eventID = 3

====
